---- MODULE Spec2Model ----
(***************************************************************************)
(* CachedTexChecker (src/src/util.rs): a memoizing front end for the       *)
(* external texvccheck process.  The state is the struct's three fields,   *)
(* the poison flag of the Mutex around the cache, and the observable       *)
(* outcome of the last operation and of the last check call.  Callers on   *)
(* several threads are in thr and owner, and the free functions of the     *)
(* module (find_arg, extract_plain_text, filename_to_make) and a retain    *)
(* pass on its own are applied in fn.                                      *)
(*                                                                         *)
(* A String is modelled as its UTF-8 byte sequence, a byte as 0..255.      *)
(***************************************************************************)
EXTENDS Integers, Sequences, FiniteSets, TLC

VARIABLES texvccheck_path, max_size, cache, poisoned, op, call, thr, owner, fn

vars == <<texvccheck_path, max_size, cache, poisoned, op, call, thr, owner, fn>>

---------------------------------------------------------------------------
(* Bounds of the model. *)

\* max_size given to new() ranges over 0..MaxCap.
MaxCap == 1

\* Longest stdout payload (bytes after the first byte) the checker emits.
MaxPayload == 1

\* Largest cache a retain pass on its own is run over.
MaxEntries == 21

\* Longest filename handed to filename_to_make.
MaxName == 2

\* Longest list handed to find_arg.
MaxArgs == 2

\* Longest top-level list handed to extract_plain_text.
MaxContent == 2

\* Formula sources handed to check(); they differ in case and whitespace
\* only, so that any normalisation of the key would merge two of them.
Sources == {"a", "A", " a"}

\* Normal form (trimmed, lowercased) of each source in Sources.
TrimLower(s) == "a"

\* Checker paths handed to new() and set_path().
Paths == {"texvccheck", "/opt/texvccheck"}

\* First bytes of stdout: '+', 'F', 'S', 'E', 'X'.
FirstBytes == {43, 70, 83, 69, 88}

\* Payload bytes: 'K', and 0xC3 0xA9, which is "e acute" only in that order.
PayloadBytes == {75, 195, 169}

\* What the process leaves besides stdout, its exit status and its stderr:
\* a silent success, and a failure that wrote to stderr.
Silent == [status |-> 0, stderr |-> <<>>]
Diagnostics == {Silent, [status |-> 1, stderr |-> <<69>>]}

\* Outputs of a process that may also fail: nothing, "+", "SK", and 'X'
\* before a byte that is not UTF-8.
ExitStdouts == {<<>>, <<43>>, <<83, 75>>, <<88, 195>>}

---------------------------------------------------------------------------
(* TexResult *)

TexOk(text) == [tag |-> "Ok", text |-> text]
UnknownFunction(text) == [tag |-> "UnknownFunction", text |-> text]
LexingError == [tag |-> "LexingError", text |-> <<>>]
SyntaxError == [tag |-> "SyntaxError", text |-> <<>>]
UnknownError == [tag |-> "UnknownError", text |-> <<>>]

\* Placeholder where a call returned no TexResult.
NoResult == [tag |-> "None", text |-> <<>>]

---------------------------------------------------------------------------
(* String::from_utf8: the bytes are kept as they are when they are       *)
(* well-formed UTF-8, and the conversion fails otherwise.                *)

IsCont(b) == b >= 128 /\ b <= 191

RECURSIVE IsUtf8(_)
IsUtf8(bytes) ==
    IF bytes = <<>> THEN TRUE
    ELSE LET b == Head(bytes)
             n == Len(bytes)
         IN  IF b < 128 THEN IsUtf8(Tail(bytes))
             ELSE IF b >= 194 /\ b <= 223
             THEN n >= 2 /\ IsCont(bytes[2]) /\ IsUtf8(SubSeq(bytes, 3, n))
             ELSE IF b >= 224 /\ b <= 239
             THEN /\ n >= 3
                  /\ IsCont(bytes[2]) /\ IsCont(bytes[3])
                  /\ (b = 224 => bytes[2] >= 160)
                  /\ (b = 237 => bytes[2] <= 159)
                  /\ IsUtf8(SubSeq(bytes, 4, n))
             ELSE IF b >= 240 /\ b <= 244
             THEN /\ n >= 4
                  /\ IsCont(bytes[2]) /\ IsCont(bytes[3]) /\ IsCont(bytes[4])
                  /\ (b = 240 => bytes[2] >= 144)
                  /\ (b = 244 => bytes[2] <= 143)
                  /\ IsUtf8(SubSeq(bytes, 5, n))
             ELSE FALSE

\* A lossy conversion that never fails.
FromUtf8Lossy(bytes) == [ok |-> TRUE, text |-> IF IsUtf8(bytes) THEN bytes ELSE <<>>]

FromUtf8(bytes) == [ok |-> IsUtf8(bytes), text |-> IF IsUtf8(bytes) THEN bytes ELSE <<>>]

---------------------------------------------------------------------------
(* The steps of check() *)

\* cache.get(source), ignoring cached UnknownError entries.
CacheGetRetryUnknown(c, source) ==
    IF source \in DOMAIN c /\ c[source] # UnknownError
    THEN [found |-> TRUE, value |-> c[source]]
    ELSE [found |-> FALSE, value |-> NoResult]

\* cache.get(source)
CacheGet(c, source) ==
    IF source \in DOMAIN c
    THEN [found |-> TRUE, value |-> c[source]]
    ELSE [found |-> FALSE, value |-> NoResult]

\* A launch failure turned into empty output instead of a panic.
CommandOutputOrEmpty(launched, out, diag) ==
    [ok |-> TRUE, status |-> diag.status, stdout |-> IF launched THEN out ELSE <<>>,
     stderr |-> diag.stderr]

\* Output whose stdout is dropped when the process exits with a failure.
CommandOutputIfSuccess(launched, out, diag) ==
    [ok |-> launched, status |-> diag.status,
     stdout |-> IF launched /\ diag.status = 0 THEN out ELSE <<>>,
     stderr |-> diag.stderr]

\* Command::new(path).arg(source).output(): Err when the process cannot be
\* launched, else its exit status and the bytes it wrote to stdout and stderr.
CommandOutput(launched, out, diag) ==
    [ok |-> launched, status |-> diag.status, stdout |-> IF launched THEN out ELSE <<>>,
     stderr |-> diag.stderr]

\* The match with the arms of 'S' and 'E' swapped.
ClassifySwapped(first, text) ==
    IF first = <<>> THEN UnknownError
    ELSE CASE first[1] = 43 -> TexOk(text)
           [] first[1] = 70 -> UnknownFunction(text)
           [] first[1] = 83 -> LexingError
           [] first[1] = 69 -> SyntaxError
           [] OTHER -> UnknownError

\* match first { Some(c) => match c as char {...}, _ => UnknownError };
\* first is <<>> (None) or <<byte>> (Some(byte)).
Classify(first, text) ==
    IF first = <<>> THEN UnknownError
    ELSE CASE first[1] = 43 -> TexOk(text)
           [] first[1] = 70 -> UnknownFunction(text)
           [] first[1] = 83 -> SyntaxError
           [] first[1] = 69 -> LexingError
           [] OTHER -> UnknownError

\* The size test written with >=.
NeedsEvictionGe(c, size) == Cardinality(DOMAIN c) >= size

\* cache.len() > self.max_size
NeedsEviction(c, size) == Cardinality(DOMAIN c) > size

\* The orders in which a HashMap over these keys may enumerate them.
Enumerations(keys) ==
    {f \in [1..Cardinality(keys) -> keys] : \A i, j \in DOMAIN f : f[i] = f[j] => i = j}

\* The closure written with count % 10 != 0.
RetainOffByOne(c, order) ==
    LET kept == {order[i] : i \in {j \in DOMAIN order : j % 10 # 0}}
    IN  [k \in kept |-> c[k]]

\* cache.retain(|_, _| { count += 1; count % 10 != 1 }): the closure sees the
\* entries in enumeration order, count being the position of the entry.
Retain(c, order) ==
    LET kept == {order[i] : i \in {j \in DOMAIN order : j % 10 # 1}}
    IN  [k \in kept |-> c[k]]

\* An insert that normalises its key.
InsertNormalized(c, source, result) ==
    [k \in DOMAIN c \cup {TrimLower(source)} |->
        IF k = TrimLower(source) THEN result ELSE c[k]]

\* An insert that does not cache UnknownError.
InsertUnlessUnknown(c, source, result) ==
    IF result = UnknownError THEN c
    ELSE [k \in DOMAIN c \cup {source} |-> IF k = source THEN result ELSE c[k]]

\* cache.insert(source.into(), result.clone())
Insert(c, source, result) ==
    [k \in DOMAIN c \cup {source} |-> IF k = source THEN result ELSE c[k]]

\* What a check call lets its caller and a test double observe.
\* spawn is what the environment answered when the process was spawned
\* ("none" when it was not), stdout the bytes the process wrote.
\* path and args are the command line of the process, status its exit status.
Observed(source, outcome, result, invocations, path, args, spawn, status, stdout, evicted) ==
    [source |-> source, outcome |-> outcome, result |-> result,
     invocations |-> invocations, path |-> path, args |-> args, spawn |-> spawn,
     status |-> status, stdout |-> stdout, evicted |-> evicted]

NoCall == Observed("", "none", NoResult, 0, "", <<>>, "none", 0, <<>>, FALSE)

\* The outputs the checker process may write.
Payloads == UNION {[1..n -> PayloadBytes] : n \in 0..MaxPayload}
Stdouts == {<<>>} \cup {<<b>> \o p : b \in FirstBytes, p \in Payloads}

---------------------------------------------------------------------------
(* Operations *)

\* Threads that may call check on the one shared checker.
Threads == {"t1", "t2", "t3"}

\* The Mutex is held by no thread.
Unlocked == "none"

\* A thread that has not called check: pc is where the thread is, at the
\* number of lock acquisitions that preceded its call; uncached tells whether
\* its source was absent from the cache when it called; invoked counts the
\* processes its call spawned, hung tells that its process never ends and
\* removed holds the keys its eviction pass removed.
NotCalled ==
    [pc |-> "idle", source |-> "", at |-> 0, uncached |-> FALSE, invoked |-> 0,
     hung |-> FALSE, removed |-> {}, result |-> NoResult]

\* No free function has been applied.
NotApplied == [name |-> "none"]

\* CachedTexChecker::new(path, size)
New ==
    /\ texvccheck_path \in Paths
    /\ max_size \in 0..MaxCap
    /\ cache = <<>>
    /\ poisoned = FALSE
    /\ op = [name |-> "new", path |-> texvccheck_path]
    /\ call = NoCall
    /\ thr = [t \in Threads |-> NotCalled]
    /\ owner = Unlocked

\* The checker after construction, no free function applied.
Init ==
    /\ New
    /\ fn = NotApplied

\* set_path that also drops the cache.
set_path_clearing(path) ==
    /\ texvccheck_path' = path
    /\ cache' = <<>>
    /\ op' = [name |-> "set_path", path |-> path]
    /\ UNCHANGED <<max_size, poisoned, call, thr, owner, fn>>

\* CachedTexChecker::set_path(path)
set_path(path) ==
    /\ texvccheck_path' = path
    /\ op' = [name |-> "set_path", path |-> path]
    /\ UNCHANGED <<max_size, cache, poisoned, call, thr, owner, fn>>

\* CachedTexChecker::get_path(); op.path is the returned path.
get_path ==
    /\ op' = [name |-> "get_path", path |-> texvccheck_path]
    /\ UNCHANGED <<texvccheck_path, max_size, cache, poisoned, call, thr, owner, fn>>

\* One whole call of check(source).  launched, out and diag are what the
\* environment does when the process is spawned, out being drawn from outs
\* and diag from diags; order is the order in which the HashMap enumerates
\* its entries when retain runs.
\* A panic while the MutexGuard is alive poisons the Mutex, and
\* lock().unwrap() panics on a poisoned Mutex.
check_in(source, outs, diags) ==
    /\ op' = [name |-> "check", path |-> texvccheck_path]
    /\ UNCHANGED <<texvccheck_path, max_size, thr, owner, fn>>
    /\ IF poisoned
       THEN /\ call' = Observed(source, "poisoned", NoResult, 0, "", <<>>, "none",
                                0, <<>>, FALSE)
            /\ UNCHANGED <<cache, poisoned>>
       ELSE IF CacheGet(cache, source).found
       THEN /\ call' = Observed(source, "hit", CacheGet(cache, source).value,
                                0, "", <<>>, "none", 0, <<>>, FALSE)
            /\ UNCHANGED <<cache, poisoned>>
       ELSE \E launched \in BOOLEAN :
            \E out \in IF launched THEN outs ELSE {<<>>} :
            \E diag \in IF launched THEN diags ELSE {Silent} :
              LET output == CommandOutput(launched, out, diag)
                  spawn  == IF launched THEN "ok" ELSE "failed"
                  first  == IF output.stdout = <<>> THEN <<>>
                            ELSE <<Head(output.stdout)>>
                  rest   == IF output.stdout = <<>> THEN <<>>
                            ELSE Tail(output.stdout)
                  text   == FromUtf8(rest)
                  result == Classify(first, text.text)
                  evict  == NeedsEviction(cache, max_size)
              IN  IF ~output.ok
                  THEN /\ call' = Observed(source, "launch_failed", NoResult, 1,
                                           texvccheck_path, <<source>>, spawn,
                                           diag.status, <<>>, FALSE)
                       /\ poisoned' = TRUE
                       /\ UNCHANGED cache
                  ELSE IF ~text.ok
                  THEN /\ call' = Observed(source, "corrupted", NoResult, 1,
                                           texvccheck_path, <<source>>, spawn,
                                           diag.status, out, FALSE)
                       /\ poisoned' = TRUE
                       /\ UNCHANGED cache
                  ELSE \E order \in IF evict THEN Enumerations(DOMAIN cache)
                                    ELSE {<<>>} :
                       LET kept == IF evict THEN Retain(cache, order) ELSE cache
                       IN  /\ call' = Observed(source, "miss", result, 1,
                                               texvccheck_path, <<source>>, spawn,
                                               diag.status, out, evict)
                           /\ cache' = Insert(kept, source, result)
                           /\ UNCHANGED poisoned

\* check(source) with a process that exits silently with status 0.
check(source) == check_in(source, Stdouts, {Silent})

\* check(source) with a process that may fail and write to stderr.
check_any_exit(source) == check_in(source, ExitStdouts, Diagnostics)

Next ==
    \/ \E source \in Sources : check(source)
    \/ \E path \in Paths : set_path(path)
    \/ get_path

Spec == Init /\ [][Next]_vars

\* The checker with processes of any exit status.
NextExit ==
    \/ \E source \in Sources : check_any_exit(source)
    \/ \E path \in Paths : set_path(path)
    \/ get_path

SpecExit == Init /\ [][NextExit]_vars

---------------------------------------------------------------------------
(* check() called from several threads.  Each thread calls check once.  A  *)
(* call is three steps: the call itself, which then waits for the Mutex;   *)
(* the lock with the lookup and, on a miss, the spawn of the process; and  *)
(* the end of the process with the rest of the function.  set_path takes   *)
(* &mut self and so cannot run while any call of check is in progress.     *)

\* The MutexGuard dropped before the process is waited for.
ReleasedWhileRunning(t) == Unlocked

\* let mut cache = self.cache.lock().unwrap(): the guard lives until check
\* returns or unwinds, so the Mutex is held while the process runs.
HeldWhileRunning(t) == t

\* The number of lock acquisitions so far.
Acquired == Cardinality({u \in Threads : thr[u].pc \notin {"idle", "waiting"}})

\* Thread t calls check(source) and blocks in lock().
call_check(t, source) ==
    /\ thr[t].pc = "idle"
    /\ thr' = [thr EXCEPT ![t] = [@ EXCEPT !.pc = "waiting", !.source = source,
                                           !.at = Acquired,
                                           !.uncached = source \notin DOMAIN cache]]
    /\ UNCHANGED <<texvccheck_path, max_size, cache, poisoned, op, call, owner, fn>>

\* Thread t gets the Mutex: it panics if the Mutex is poisoned, returns the
\* cached value on a hit, and on a miss spawns the process, which fails to
\* launch (a panic) or runs, to end later or never.
lock_and_lookup(t) ==
    /\ thr[t].pc = "waiting"
    /\ owner = Unlocked
    /\ UNCHANGED <<texvccheck_path, max_size, cache, op, call, fn>>
    /\ IF poisoned
       THEN /\ thr' = [thr EXCEPT ![t] = [@ EXCEPT !.pc = "panicked"]]
            /\ UNCHANGED <<poisoned, owner>>
       ELSE IF CacheGet(cache, thr[t].source).found
       THEN /\ thr' = [thr EXCEPT ![t] =
                          [@ EXCEPT !.pc = "returned",
                                    !.result = CacheGet(cache, thr[t].source).value]]
            /\ UNCHANGED <<poisoned, owner>>
       ELSE \E launched \in BOOLEAN :
              IF ~CommandOutput(launched, <<>>, Silent).ok
              THEN /\ thr' = [thr EXCEPT ![t] = [@ EXCEPT !.pc = "panicked",
                                                         !.invoked = 1]]
                   /\ poisoned' = TRUE
                   /\ UNCHANGED owner
              ELSE \E hung \in BOOLEAN :
                   /\ thr' = [thr EXCEPT ![t] = [@ EXCEPT !.pc = "running",
                                                         !.invoked = 1,
                                                         !.hung = hung]]
                   /\ owner' = HeldWhileRunning(t)
                   /\ UNCHANGED poisoned

\* The process of thread t ends having written out: the payload is
\* decoded (a panic when it is not UTF-8), the result classified, the cache
\* trimmed and filled, the result returned and the guard dropped.
finish(t) ==
    /\ thr[t].pc = "running"
    /\ ~thr[t].hung
    /\ UNCHANGED <<texvccheck_path, max_size, op, call, fn>>
    /\ owner' = Unlocked
    /\ \E out \in ExitStdouts :
         LET output == CommandOutput(TRUE, out, Silent)
             first  == IF output.stdout = <<>> THEN <<>>
                       ELSE <<Head(output.stdout)>>
             rest   == IF output.stdout = <<>> THEN <<>>
                       ELSE Tail(output.stdout)
             text   == FromUtf8(rest)
             result == Classify(first, text.text)
             evict  == NeedsEviction(cache, max_size)
         IN  IF ~text.ok
             THEN /\ thr' = [thr EXCEPT ![t] = [@ EXCEPT !.pc = "panicked"]]
                  /\ poisoned' = TRUE
                  /\ UNCHANGED cache
             ELSE \E order \in IF evict THEN Enumerations(DOMAIN cache)
                               ELSE {<<>>} :
                  LET kept == IF evict THEN Retain(cache, order) ELSE cache
                  IN  /\ thr' = [thr EXCEPT ![t] =
                                   [@ EXCEPT !.pc = "returned", !.result = result,
                                             !.removed = DOMAIN cache \ DOMAIN kept]]
                      /\ cache' = Insert(kept, thr[t].source, result)
                      /\ UNCHANGED poisoned

\* The sources the threads race on.
RaceSources == {"a", "A"}

\* One checker, at one path, shared by the threads.
InitThreads ==
    /\ Init
    /\ texvccheck_path = "texvccheck"

NextThreads ==
    \/ \E t \in Threads, source \in RaceSources : call_check(t, source)
    \/ \E t \in Threads : lock_and_lookup(t)
    \/ \E t \in Threads : finish(t)

SpecThreads == InitThreads /\ [][NextThreads]_vars

\* The Mutex is handed to every thread that waits for it, and a process
\* that is not hung ends.
SpecFair ==
    /\ SpecThreads
    /\ \A t \in Threads : WF_vars(lock_and_lookup(t)) /\ WF_vars(finish(t))

---------------------------------------------------------------------------
(* A retain pass on its own, over caches of up to MaxEntries entries.  The *)
(* keys are numbered; the enumeration order is a rotation of the keys,     *)
(* forwards or backwards.                                                  *)

\* A cache of n entries.
CacheOfSize(n) == [k \in 1..n |-> IF k % 2 = 0 THEN SyntaxError ELSE TexOk(<<75>>)]

\* The enumeration of 1..n that starts after key r and runs forwards, or
\* backwards when rev.
Rotation(n, r, rev) ==
    [i \in 1..n |-> IF rev THEN ((n - i + r) % n) + 1 ELSE ((i - 1 + r) % n) + 1]

InitRetain ==
    /\ New
    /\ \E n \in 0..MaxEntries, rev \in BOOLEAN :
       \E r \in 0..(IF n = 0 THEN 0 ELSE n - 1) :
          fn = [name |-> "retain", in |-> CacheOfSize(n),
                order |-> Rotation(n, r, rev), out |-> <<>>, done |-> FALSE]

\* if cache.len() > self.max_size { cache.retain(...) }: the pass itself.
retain_pass ==
    /\ fn.name = "retain"
    /\ ~fn.done
    /\ fn' = [fn EXCEPT !.out = Retain(fn.in, fn.order), !.done = TRUE]
    /\ UNCHANGED <<texvccheck_path, max_size, cache, poisoned, op, call, thr, owner>>

NextRetain == retain_pass

SpecRetain == InitRetain /\ [][NextRetain]_vars

---------------------------------------------------------------------------
(* The free functions.  A string is the sequence of its characters.        *)

\* The checker plays no part when a free function is applied.
NoChecker ==
    /\ texvccheck_path = "texvccheck"
    /\ max_size = 0
    /\ cache = <<>>
    /\ poisoned = FALSE
    /\ op = [name |-> "new", path |-> texvccheck_path]
    /\ call = NoCall
    /\ thr = [t \in Threads |-> NotCalled]
    /\ owner = Unlocked

checker == <<texvccheck_path, max_size, cache, poisoned, op, call, thr, owner>>

\* The strings over alphabet of length at most n.
Strings(alphabet, n) == UNION {[1..k -> alphabet] : k \in 0..n}

\* The concatenation of the strings of a list of strings.
RECURSIVE Concat(_)
Concat(strings) ==
    IF strings = <<>> THEN <<>> ELSE Head(strings) \o Concat(Tail(strings))

(* filename_to_make *)

\* The characters filename_to_make replaces, with what replaces each, in
\* the order of the calls of replace.
Replacements ==
    << <<" ", <<"_">> >>,
       <<":", <<"@", "C", "O", "L", "O", "N", "@">> >>,
       <<"(", <<"@", "L", "B", "R", "@">> >>,
       <<")", <<"@", "R", "B", "R", "@">> >>,
       <<"/", <<"@", "S", "L", "A", "S", "H", "@">> >>,
       <<"'", <<"@", "S", "Q", "U", "O", "T", "E", "@">> >>,
       <<"\"", <<"@", "D", "Q", "U", "O", "T", "E", "@">> >>,
       <<"*", <<"@", "S", "T", "A", "R", "@">> >>,
       <<"=", <<"@", "E", "Q", "@">> >>,
       <<"$", <<"@", "D", "O", "L", "L", "A", "R", "@">> >>,
       <<"#", <<"@", "S", "H", "A", "R", "P", "@">> >>,
       <<"%", <<"@", "P", "E", "R", "C", "@">> >> >>

\* A replace that stops after the first match.
RECURSIVE ReplaceFirst(_, _, _)
ReplaceFirst(s, from, to) ==
    IF s = <<>> THEN <<>>
    ELSE IF Head(s) = from THEN to \o Tail(s)
    ELSE <<Head(s)>> \o ReplaceFirst(Tail(s), from, to)

\* str::replace(from, to) for a pattern of one character: every match.
RECURSIVE Replace(_, _, _)
Replace(s, from, to) ==
    IF s = <<>> THEN <<>>
    ELSE (IF Head(s) = from THEN to ELSE <<Head(s)>>) \o Replace(Tail(s), from, to)

\* The chain of replace calls from the i-th on.
RECURSIVE ReplaceFrom(_, _)
ReplaceFrom(s, i) ==
    IF i > Len(Replacements) THEN s
    ELSE ReplaceFrom(Replace(s, Replacements[i][1], Replacements[i][2]), i + 1)

\* filename_to_make(input)
FilenameToMake(input) == ReplaceFrom(input, 1)

\* Characters of the filenames: the replaced ones, '@', '_' and a letter.
NameChars == {Replacements[i][1] : i \in DOMAIN Replacements} \cup {"@", "_", "a"}

InitMake ==
    /\ NoChecker
    /\ \E input \in Strings(NameChars, MaxName) :
          fn = [name |-> "filename_to_make", in |-> input, out |-> <<>>,
                again |-> <<>>, done |-> FALSE]

\* filename_to_make applied to the input, and to its own output.
filename_to_make ==
    /\ fn.name = "filename_to_make"
    /\ ~fn.done
    /\ fn' = [fn EXCEPT !.out = FilenameToMake(fn.in),
                        !.again = FilenameToMake(FilenameToMake(fn.in)),
                        !.done = TRUE]
    /\ UNCHANGED checker

NextMake == filename_to_make

SpecMake == InitMake /\ [][NextMake]_vars

(* Element: the kinds the two functions tell apart, and one other kind.    *)

Text(text) == [kind |-> "Text", name |-> <<>>, text |-> text, content |-> <<>>]
Formatted(content) ==
    [kind |-> "Formatted", name |-> <<>>, text |-> <<>>, content |-> content]
Paragraph(content) ==
    [kind |-> "Paragraph", name |-> <<>>, text |-> <<>>, content |-> content]
TemplateArgument(name, value) ==
    [kind |-> "TemplateArgument", name |-> name, text |-> <<>>, content |-> value]
Heading(content) ==
    [kind |-> "Heading", name |-> <<>>, text |-> <<>>, content |-> content]

(* find_arg *)

\* str::trim: leading and trailing whitespace removed.
RECURSIVE TrimStart(_)
TrimStart(s) == IF s # <<>> /\ Head(s) = " " THEN TrimStart(Tail(s)) ELSE s

RECURSIVE TrimEnd(_)
TrimEnd(s) ==
    IF s # <<>> /\ s[Len(s)] = " " THEN TrimEnd(SubSeq(s, 1, Len(s) - 1)) ELSE s

Trim(s) == TrimEnd(TrimStart(s))

\* str::to_lowercase
ToLowercase(s) ==
    [i \in DOMAIN s |-> CASE s[i] = "A" -> "a" [] s[i] = "B" -> "b" [] OTHER -> s[i]]

\* find_arg comparing the lowercased name without trimming it.
RECURSIVE FindArgUntrimmedFrom(_, _, _)
FindArgUntrimmedFrom(content, names, i) ==
    IF i > Len(content) THEN 0
    ELSE IF /\ content[i].kind = "TemplateArgument"
            /\ ToLowercase(content[i].name) \in names
    THEN i
    ELSE FindArgUntrimmedFrom(content, names, i + 1)

FindArgUntrimmed(content, names) == FindArgUntrimmedFrom(content, names, 1)

\* The loop of find_arg from the i-th child on: the position of the child
\* returned, 0 for None.
RECURSIVE FindArgFrom(_, _, _)
FindArgFrom(content, names, i) ==
    IF i > Len(content) THEN 0
    ELSE IF /\ content[i].kind = "TemplateArgument"
            /\ ToLowercase(Trim(content[i].name)) \in names
    THEN i
    ELSE FindArgFrom(content, names, i + 1)

\* find_arg(content, names)
FindArg(content, names) == FindArgFrom(content, names, 1)

\* Names of template arguments, and the elements of the lists searched.
ArgNames == Strings({" ", "a", "A"}, 2)
ArgElements ==
    {TemplateArgument(n, <<>>) : n \in ArgNames}
        \cup {Text(<<"a">>), Paragraph(<<Text(<<"a">>)>>)}

\* The lists of names searched for.
NameLists == SUBSET {<<"a">>, <<"A">>, <<>>}

InitFindArg ==
    /\ NoChecker
    /\ \E content \in Strings(ArgElements, MaxArgs), names \in NameLists :
          fn = [name |-> "find_arg", in |-> content, names |-> names,
                out |-> 0, done |-> FALSE]

find_arg ==
    /\ fn.name = "find_arg"
    /\ ~fn.done
    /\ fn' = [fn EXCEPT !.out = FindArg(fn.in, fn.names), !.done = TRUE]
    /\ UNCHANGED checker

NextFindArg == find_arg

SpecFindArg == InitFindArg /\ [][NextFindArg]_vars

(* extract_plain_text *)

\* extract_plain_text that does not descend into template arguments.
RECURSIVE ExtractSkippingArguments(_)
ExtractSkippingArguments(content) ==
    IF content = <<>> THEN <<>>
    ELSE LET root == Head(content)
             part == CASE root.kind = "Text" -> root.text
                       [] root.kind \in {"Formatted", "Paragraph"} ->
                            ExtractSkippingArguments(root.content)
                       [] OTHER -> <<>>
         IN  part \o ExtractSkippingArguments(Tail(content))

\* extract_plain_text(content)
RECURSIVE ExtractPlainText(_)
ExtractPlainText(content) ==
    IF content = <<>> THEN <<>>
    ELSE LET root == Head(content)
             part == CASE root.kind = "Text" -> root.text
                       [] root.kind = "Formatted" -> ExtractPlainText(root.content)
                       [] root.kind = "Paragraph" -> ExtractPlainText(root.content)
                       [] root.kind = "TemplateArgument" ->
                            ExtractPlainText(root.content)
                       [] OTHER -> <<>>
         IN  part \o ExtractPlainText(Tail(content))

\* The four kinds of element that hold a list, around each list of lists.
Wrapped(lists) ==
    {Formatted(c) : c \in lists} \cup {Paragraph(c) : c \in lists}
        \cup {TemplateArgument(<<"a">>, c) : c \in lists}
        \cup {Heading(c) : c \in lists}

\* Documents: text nodes, elements around text, elements around those.
TextNodes == {Text(<<"x">>), Text(<<"y">>)}
Shallow == TextNodes \cup Wrapped({<<>>, <<Text(<<"x">>)>>, <<Text(<<"x">>), Text(<<"y">>)>>})
Deep == TextNodes \cup Wrapped({<<e>> : e \in Shallow})

InitExtract ==
    /\ NoChecker
    /\ \E content \in Strings(Deep, MaxContent) :
          fn = [name |-> "extract_plain_text", in |-> content, out |-> <<>>,
                done |-> FALSE]

extract_plain_text ==
    /\ fn.name = "extract_plain_text"
    /\ ~fn.done
    /\ fn' = [fn EXCEPT !.out = ExtractPlainText(fn.in), !.done = TRUE]
    /\ UNCHANGED checker

NextExtract == extract_plain_text

SpecExtract == InitExtract /\ [][NextExtract]_vars

---------------------------------------------------------------------------
(* Properties *)

\* A step that is one call of check.
CheckStep == op'.name = "check"

\* The call of this step found the Mutex unpoisoned and its source cached.
HitStep == CheckStep /\ ~poisoned /\ call'.source \in DOMAIN cache

\* The call of this step found the Mutex unpoisoned and its source not cached.
MissStep == CheckStep /\ ~poisoned /\ call'.source \notin DOMAIN cache

\* The bytes after the first byte of a stdout.
PayloadOf(stdout) == IF stdout = <<>> THEN <<>> ELSE Tail(stdout)

\* The last check call returned a TexResult.
Returned == call.result # NoResult

\* C1: a check(s) that acquires the lock while s is a key of the cache
\* returns exactly the value stored under s and does not invoke the
\* external process.
C1_HitReturnsStored ==
    [][HitStep => /\ call'.result = cache[call'.source]
                  /\ call'.invocations = 0
                  /\ call'.spawn = "none"]_vars

C1_Witness ==
    /\ op.name = "check"
    /\ call.outcome = "hit"
    /\ call.result = UnknownError

\* C2: once check(s) has returned r, the next check call, if it is again
\* check(s), returns r as a cache hit without invoking the external
\* process, for every max_size (0 included) and every cache state.
C2_Idempotent ==
    [][(CheckStep /\ Returned /\ call'.source = call.source)
         => /\ call'.outcome = "hit"
            /\ call'.result = call.result
            /\ call'.invocations = 0]_vars

C2_Witness ==
    /\ op.name = "check"
    /\ max_size = 0
    /\ call.outcome = "hit"
    /\ call.result = TexOk(<<75>>)

\* The classification table read on the last call: stdout against result.
TableHolds ==
    /\ call.stdout = <<>> => call.result = UnknownError
    /\ call.stdout # <<>> =>
         /\ Head(call.stdout) = 43 => call.result = TexOk(Tail(call.stdout))
         /\ Head(call.stdout) = 70 => call.result = UnknownFunction(Tail(call.stdout))
         /\ Head(call.stdout) = 83 => call.result = SyntaxError
         /\ Head(call.stdout) = 69 => call.result = LexingError
         /\ Head(call.stdout) \notin {43, 70, 83, 69} => call.result = UnknownError

\* C3, as amended: on a cache miss whose process launched, for every stdout
\* whose bytes after the first are valid UTF-8, check returns the variant
\* the table gives for the first byte (UnknownError for empty stdout).
C3_ClassificationValidPayload ==
    (call.spawn = "ok" /\ IsUtf8(PayloadOf(call.stdout))) => TableHolds

C3_Witness ==
    /\ call.spawn = "ok"
    /\ call.stdout = <<83, 75>>
    /\ call.result = SyntaxError

\* C3, as stated: the table holds for every stdout, whatever the payload.
C3_Original == call.spawn = "ok" => TableHolds

\* C4: when a check(s) that missed the cache returns r, the cache maps
\* exactly s to r, whichever variant r is and whether or not the call ran
\* an eviction pass.
C4_MissIsCached ==
    call.outcome = "miss" =>
        /\ call.source \in DOMAIN cache
        /\ cache[call.source] = call.result
        /\ Returned

C4_Witness ==
    /\ call.outcome = "miss"
    /\ call.evicted
    /\ call.source = "A"
    /\ call.result = UnknownError
    /\ cache["A"] = UnknownError

C6_SoftBound == Cardinality(DOMAIN cache) <= max_size + 1

C6_Witness ==
    /\ Cardinality(DOMAIN cache) = max_size + 1
    /\ call.evicted
    /\ max_size = 0

\* C7: set_path changes the path only, leaving cache and max_size as they
\* were; the check that follows it on a cached source does not invoke the
\* process, and returns the cached value when it acquires the lock.
C7_SetPathKeepsCache ==
    [][/\ op'.name = "set_path" =>
            /\ cache' = cache
            /\ max_size' = max_size
            /\ poisoned' = poisoned
            /\ texvccheck_path' = op'.path
       /\ (op.name = "set_path" /\ CheckStep /\ call'.source \in DOMAIN cache) =>
            /\ call'.invocations = 0
            /\ ~poisoned => call'.result = cache[call'.source]]_vars

C7_Witness ==
    /\ op.name = "set_path"
    /\ call.outcome = "miss"
    /\ call.path # texvccheck_path
    /\ call.source \in DOMAIN cache
    /\ cache[call.source] = call.result

\* C8: a check that misses the cache and whose process cannot be launched
\* ends in a panic, returns no TexResult and leaves the cache as it was.
C8_LaunchFailureIsFatal ==
    [][(MissStep /\ call'.spawn = "failed")
         => /\ call'.outcome = "launch_failed"
            /\ call'.result = NoResult
            /\ cache' = cache]_vars

C8_Witness ==
    /\ call.outcome = "launch_failed"
    /\ call.spawn = "failed"
    /\ call.source \notin DOMAIN cache
    /\ cache # <<>>

\* C9: a check that misses the cache and whose process writes a payload
\* that is not valid UTF-8 ends in a panic, whatever the first byte; it
\* returns no TexResult, UnknownError included, and caches nothing.
C9_CorruptedPayloadIsFatal ==
    [][(MissStep /\ call'.spawn = "ok" /\ ~IsUtf8(PayloadOf(call'.stdout)))
         => /\ call'.outcome = "corrupted"
            /\ call'.result = NoResult
            /\ cache' = cache]_vars

C9_Witness ==
    /\ call.outcome = "corrupted"
    /\ call.stdout = <<83, 195>>
    /\ call.source \notin DOMAIN cache

\* C10: a check call ends without a TexResult only when its process could
\* not be launched or wrote a payload that is not valid UTF-8.
C10_OnlyTwoFatalConditions ==
    (call.outcome # "none" /\ ~Returned) =>
        \/ call.spawn = "failed"
        \/ call.spawn = "ok" /\ ~IsUtf8(PayloadOf(call.stdout))

\* The enumeration positions 1, 11, 21, ... of a cache of n entries.
EvictedPositions(n) == {i \in 1..n : i % 10 = 1}

\* C13: an eviction pass over n entries removes exactly the entries at
\* enumeration positions 1, 11, 21, ..., that is ceil(n/10) entries and at
\* least one when n >= 1, and leaves every other entry with its value.
C13_EvictionRate ==
    (fn.name = "retain" /\ fn.done) =>
        LET n       == Cardinality(DOMAIN fn.in)
            removed == {fn.order[i] : i \in EvictedPositions(n)}
        IN  /\ DOMAIN fn.out = DOMAIN fn.in \ removed
            /\ Cardinality(DOMAIN fn.in \ DOMAIN fn.out) = (n + 9) \div 10
            /\ n >= 1 => DOMAIN fn.out # DOMAIN fn.in
            /\ \A k \in DOMAIN fn.out : fn.out[k] = fn.in[k]

C13_Witness ==
    /\ fn.name = "retain"
    /\ fn.done
    /\ Cardinality(DOMAIN fn.in) = 21
    /\ fn.order[1] = 5
    /\ DOMAIN fn.in \ DOMAIN fn.out = {5, 15, 4}

\* C14, as amended: a check call that runs an eviction pass returns with the
\* cache holding at most max_size + 1 entries, and exactly max_size + 1 when
\* max_size < 10: the pass removes one entry in ten and the entry of the
\* call is inserted after it.
C14_EvictionLeavesSoftBound ==
    call.evicted =>
        /\ Cardinality(DOMAIN cache) <= max_size + 1
        /\ max_size < 10 => Cardinality(DOMAIN cache) = max_size + 1

C14_Witness ==
    /\ op.name = "check"
    /\ call.evicted
    /\ max_size = 1
    /\ Cardinality(DOMAIN cache) = 2
    /\ call.result = LexingError

\* C14, as stated: a check call that runs an eviction pass returns with the
\* cache holding at most max_size entries.
C14_Original == call.evicted => Cardinality(DOMAIN cache) <= max_size

\* C15: a check call that finds its source in the cache changes nothing in
\* the cache, spawns nothing and runs no eviction pass, also when the cache
\* holds more than max_size entries.
C15_HitLeavesCache ==
    [][HitStep => /\ cache' = cache
                  /\ poisoned' = poisoned
                  /\ max_size' = max_size
                  /\ ~call'.evicted]_vars

C15_Witness ==
    /\ op.name = "check"
    /\ call.outcome = "hit"
    /\ ~call.evicted
    /\ Cardinality(DOMAIN cache) > max_size

\* C16: a check that misses the cache spawns the process exactly once, at
\* the path the checker holds at that time, with the source as its only
\* argument; whether it returns and what it returns is decided by stdout
\* alone, whatever the exit status and stderr.
C16_OneInvocationStdoutOnly ==
    [][MissStep =>
         /\ call'.invocations = 1
         /\ call'.path = texvccheck_path
         /\ call'.args = <<call'.source>>
         /\ call'.spawn = "ok" =>
              /\ Returned' <=> IsUtf8(PayloadOf(call'.stdout))
              /\ Returned' => TableHolds']_vars

C16_Witness ==
    /\ op.name = "check"
    /\ call.outcome = "miss"
    /\ call.status = 1
    /\ call.args = <<" a">>
    /\ call.path = "/opt/texvccheck"
    /\ call.result = TexOk(<<>>)

\* The name with the spaces before its first and after its last other
\* character cut off, in lower case.
Normalized(name) ==
    LET inked == {i \in DOMAIN name : name[i] # " "}
        lo    == CHOOSE i \in inked : \A j \in inked : i <= j
        hi    == CHOOSE i \in inked : \A j \in inked : i >= j
        cut   == IF inked = {} THEN <<>> ELSE SubSeq(name, lo, hi)
    IN  [i \in DOMAIN cut |-> IF cut[i] = "A" THEN "a" ELSE cut[i]]

\* C18: find_arg returns the first element of the list that is a template
\* argument whose trimmed, lowercased name is in names, None when there is
\* none, and never an element that is not a template argument.
C18_FindArgFirstMatch ==
    (fn.name = "find_arg" /\ fn.done) =>
        LET matching == {i \in DOMAIN fn.in :
                            /\ fn.in[i].kind = "TemplateArgument"
                            /\ Normalized(fn.in[i].name) \in fn.names}
        IN  /\ matching = {} => fn.out = 0
            /\ matching # {} =>
                 /\ fn.out \in matching
                 /\ \A i \in matching : fn.out <= i

C18_Witness ==
    /\ fn.name = "find_arg"
    /\ fn.done
    /\ fn.names = {<<"a">>}
    /\ fn.in = <<TemplateArgument(<<"A", "a">>, <<>>), TemplateArgument(<<" ", "A">>, <<>>)>>
    /\ fn.out = 2

\* The text of the Text nodes of a list, then of a list whose elements may
\* hold such a list, then of a list whose elements may hold one of those:
\* Paragraph, Formatted and TemplateArgument are looked into, no other kind.
LookedInto == {"Paragraph", "Formatted", "TemplateArgument"}
TextOfLeaves(list) ==
    Concat([i \in DOMAIN list |->
              IF list[i].kind = "Text" THEN list[i].text ELSE <<>>])
TextOfShallow(list) ==
    Concat([i \in DOMAIN list |->
              IF list[i].kind = "Text" THEN list[i].text
              ELSE IF list[i].kind \in LookedInto THEN TextOfLeaves(list[i].content)
              ELSE <<>>])
TextOfDeep(list) ==
    Concat([i \in DOMAIN list |->
              IF list[i].kind = "Text" THEN list[i].text
              ELSE IF list[i].kind \in LookedInto THEN TextOfShallow(list[i].content)
              ELSE <<>>])

\* C19: extract_plain_text returns, in document order, the text of the Text
\* nodes of the list and of those inside Paragraph, Formatted and
\* TemplateArgument elements at any depth; any other element contributes
\* nothing, whatever it holds, and the empty list gives the empty string.
C19_ExtractPlainText ==
    (fn.name = "extract_plain_text" /\ fn.done) =>
        /\ fn.out = TextOfDeep(fn.in)
        /\ fn.in = <<>> => fn.out = <<>>

C19_Witness ==
    /\ fn.name = "extract_plain_text"
    /\ fn.done
    /\ fn.in = << Heading(<<Paragraph(<<Text(<<"x">>)>>)>>),
                  TemplateArgument(<<"a">>,
                      <<Formatted(<<Text(<<"x">>), Text(<<"y">>)>>)>>) >>
    /\ fn.out = <<"x", "y">>

\* The characters that are special to make.
MakeSpecial == {" ", ":", "(", ")", "/", "'", "\"", "*", "=", "$", "#", "%"}

\* C20: the output of filename_to_make holds no character special to make,
\* no replacement text holds one, and filename_to_make maps its own output
\* to itself.
C20_FilenameToMakeClean ==
    (fn.name = "filename_to_make" /\ fn.done) =>
        /\ \A i \in DOMAIN fn.out : fn.out[i] \notin MakeSpecial
        /\ \A r \in DOMAIN Replacements :
             \A i \in DOMAIN Replacements[r][2] :
                Replacements[r][2][i] \notin MakeSpecial
        /\ fn.again = fn.out

C20_Witness ==
    /\ fn.name = "filename_to_make"
    /\ fn.done
    /\ fn.in = <<"%", "%">>
    /\ fn.out = <<"@", "P", "E", "R", "C", "@", "@", "P", "E", "R", "C", "@">>
    /\ fn.again = fn.out

\* The threads that called check(s) together, after the same number of lock
\* acquisitions, while s was not cached.
Racers(s, n) ==
    {t \in Threads : /\ thr[t].pc # "idle"
                     /\ thr[t].source = s
                     /\ thr[t].at = n
                     /\ thr[t].uncached}

\* The threads whose call has spawned a process.
Spawned(group) == {t \in group : thr[t].invoked > 0}

\* The results the threads of the group have returned.
ResultsOf(group) == {thr[t].result : t \in {u \in group : thr[u].pc = "returned"}}

\* Some eviction pass has removed the entry of s.
Evicted(s) == \E t \in Threads : s \in thr[t].removed

\* C11, as amended: among threads that call check(s) together while s is not
\* cached, at most one spawns the process and all that return return the
\* same result, as long as no eviction pass has removed the entry of s.
C11_OneInvocationUnlessEvicted ==
    \A s \in RaceSources, n \in 0..Cardinality(Threads) :
        ~Evicted(s) =>
            /\ Cardinality(Spawned(Racers(s, n))) <= 1
            /\ Cardinality(ResultsOf(Racers(s, n))) <= 1

C11_Witness ==
    /\ Cardinality(Racers("a", 0)) = 2
    /\ Cardinality(Spawned(Racers("a", 0))) = 1
    /\ \A t \in Racers("a", 0) : thr[t].pc = "returned"
    /\ ~Evicted("a")
    /\ \E t \in Threads : thr[t].removed # {}

\* C11, as stated: the same in every interleaving, eviction passes of other
\* callers included.
C11_Original ==
    \A s \in RaceSources, n \in 0..Cardinality(Threads) :
        /\ Cardinality(Spawned(Racers(s, n))) <= 1
        /\ Cardinality(ResultsOf(Racers(s, n))) <= 1

\* The threads whose process is running.
Running == {t \in Threads : thr[t].pc = "running"}

\* The call of t ends in this step, by a return or by a panic.
Ends(t) ==
    /\ thr[t].pc \notin {"returned", "panicked"}
    /\ thr'[t].pc \in {"returned", "panicked"}

\* C12: at most one process runs at any time, its caller holding the Mutex,
\* and while it runs no other call of check ends, cached source or not.
C12_WholeCallExclusion ==
    /\ [](/\ Cardinality(Running) <= 1
          /\ \A t \in Running : owner = t)
    /\ [][\A u \in Running : \A t \in Threads \ {u} : ~Ends(t)]_vars

C12_Witness ==
    \E u, t \in Threads :
        /\ thr[u].pc = "running"
        /\ owner = u
        /\ thr[t].pc = "waiting"
        /\ thr[t].source \in DOMAIN cache

\* The threads whose process never ends.
Hung == {t \in Running : thr[t].hung}

\* C17: while a process that never ends is running, its caller stays where
\* it is and no other call ends; and every call that waits for the Mutex
\* returns, unless some process hangs or some call panics.
C17_BlockingAndProgress ==
    /\ [][\A u \in Hung : /\ thr'[u] = thr[u]
                          /\ \A t \in Threads : ~Ends(t)]_vars
    /\ \A t \in Threads :
         (thr[t].pc = "waiting") ~> (thr[t].pc = "returned" \/ poisoned \/ Hung # {})

C17_Witness ==
    \E u, t \in Threads :
        /\ u \in Hung
        /\ thr[t].pc = "waiting"
        /\ thr[t].at = 1
        /\ thr[t].source \in DOMAIN cache

====
